---- MODULE Spec2Model ----
(***************************************************************************)
(* Model of the JP2 box walker (src/jp2box.py, class JP2Box) reading from  *)
(* a seekable byte source (a binary file, or src/jp2utils.py class Buffer).*)
(*                                                                         *)
(* The byte source is a concrete sequence of bytes 0..255; headers are     *)
(* decoded from it with the big-endian arithmetic of ordl and ordq.  The   *)
(* walker objects that are live during the depth-first walk form `stack`   *)
(* (the root walker first, the innermost child walker last).  The box      *)
(* handler ("hook") is supplied by the caller of parse and is not part of  *)
(* the walker: it is modelled as an environment that may read from the     *)
(* source, call readbody, or build a child walker JP2Box(box, infile) and  *)
(* walk it with the same hook, before it returns.  This is Spec.           *)
(*                                                                         *)
(* The decoders that take their input from memory, boxname and             *)
(* parse_string_header, are called alone on tags and buffers under         *)
(* SpecDecode.                                                             *)
(***************************************************************************)
EXTENDS Integers, Sequences, FiniteSets, TLC

\* ---------------------------------------------------------------- bounds
\* number of chunks (headers, small boxes) a source is assembled from
MaxChunks == 3
\* number of walkers nested in one another (the root walker counts as 1)
MaxDepth == 2
\* number of operations a handler performs on the source before it returns
MaxHookOps == 1

VARIABLES
    src,        \* the bytes of the source (infile), constant during a walk
    pos,        \* infile.tell(): the cursor of the source
    stack,      \* the live JP2Box objects, each with the control point of its parse
    outcome,    \* "running", "returned" (root parse returned) or the exception raised
    errbox,     \* the box name carried by InvalidBoxLength (character codes)
    lastRead,   \* history: the readbody call made in the previous step, if any
    left,       \* history: the cursor the hook that returned in the previous step left
    ret         \* history: the child walker whose parse returned in the previous step

vars == <<src, pos, stack, outcome, errbox, lastRead, left, ret>>

Min(a, b) == IF a < b THEN a ELSE b

\* ------------------------------------------------------------ byte source
\* file.read(n) / Buffer.read(n): at most n bytes, fewer only at end of data,
\* nothing at or past the end of data
Read(p, n) ==
    IF p >= Len(src) THEN <<>> ELSE SubSeq(src, p + 1, Min(p + n, Len(src)))

\* file.read() / Buffer.read(): all bytes up to the end of data
ReadAll(p) ==
    IF p >= Len(src) THEN <<>> ELSE SubSeq(src, p + 1, Len(src))

\* a seek that leaves the cursor where it is
seek_skipped(where) == pos

\* file.seek(where) / Buffer.seek(where): the new cursor
seek(where) == where

\* struct.unpack('>L', buf)[0]
ordl(buf) == ((buf[1] * 256 + buf[2]) * 256 + buf[3]) * 256 + buf[4]

\* struct.unpack('>Q', buf)[0]; every XL field of Sources has a zero high word
ordq(buf) ==
    ordl(SubSeq(buf, 1, 4)) * 65536 * 65536 + ordl(SubSeq(buf, 5, 8))

\* bytes.decode('ascii') succeeds iff every byte is below 0x80
IsAscii(buf) == \A i \in 1..Len(buf) : buf[i] < 128

\* ------------------------------------------------------------- box names
\* string.letters + string.digits, as character codes
Alnum == (97..122) \cup (65..90) \cup (48..57)

HexDigit(d) == IF d < 10 THEN 48 + d ELSE 87 + d

\* "%02x" % b
Hex2(b) == <<HexDigit(b \div 16), HexDigit(b % 16)>>

\* JP2Box.boxname, as Python 2 evaluates it (string.index raises ValueError for
\* a character that is no letter and no digit)
boxname(id) ==
    IF \A i \in 1..4 : id[i] \in Alnum
    THEN id
    ELSE <<48, 120>> \o Hex2(id[1]) \o Hex2(id[2]) \o Hex2(id[3]) \o Hex2(id[4])

\* the text "unknown box"
UnknownBox == <<117, 110, 107, 110, 111, 119, 110, 32, 98, 111, 120>>

\* the interpreters the sources are written for (jp2utils.py, line 225)
PythonVersions == {2, 3}

\* raise InvalidBoxLength(self.boxname(id)): the exception that is raised.  The
\* module `string` of Python 3 has neither `index` nor `letters`, so there
\* boxname raises AttributeError before InvalidBoxLength is built.
raise_named(py, id) ==
    IF py = 3 THEN [err |-> "AttributeError", box |-> <<>>]
    ELSE [err |-> "InvalidBoxLength", box |-> boxname(id)]

\* ---------------------------------------------------------------- walker
\* JP2Box.__init__(None, infile): the root walker.  `pc`, `kind`, `length` and
\* `id` are the walker's position in parse and the locals of parse.  History:
\* `start` is the cursor when the walker was built, `bstart` the cursor when the
\* hook was called, `ops` counts the operations of the running hook, `log` has
\* one entry per parse_header call of this walker.
RootBox(p) ==
    [indent |-> 0, offset |-> 0, end |-> 0,
     hdrsize |-> 0, boxsize |-> 0, target |-> 0, bodysize |-> 0,
     pc |-> "header", kind |-> "none", length |-> 0, id |-> <<>>,
     start |-> p, bstart |-> p, ops |-> 0, log |-> <<>>]

\* JP2Box.__init__(box, infile, offs): a child walker built by a handler
ChildBox(box, offs, p) ==
    [indent |-> box.indent, offset |-> box.offset + offs, end |-> box.target,
     hdrsize |-> 0, boxsize |-> 0, target |-> 0, bodysize |-> 0,
     pc |-> "header", kind |-> "none", length |-> 0, id |-> <<>>,
     start |-> p, bstart |-> p, ops |-> 0, log |-> <<>>]

\* a boundary check that takes a cursor past the scope end for the scope end
at_scope_end_mut(f, p) == f.end > 0 /\ p >= f.end

\* parse_header, lines 83-87: the scope-boundary check of a bounded scope
at_scope_end(f, p) == f.end > 0 /\ p = f.end

past_scope_end(f, p) == f.end > 0 /\ p > f.end

\* a length check that lets every L through
length_unchecked(length) == FALSE

\* parse_header, line 112: an L that does not cover the 8-byte header
length_below_header(length) == 0 < length /\ length < 8

Result(res, f, p, length, id, err, box) ==
    [res |-> res, f |-> f, pos |-> p, length |-> length, id |-> id,
     err |-> err, box |-> box]

\* JP2Box.parse_header under interpreter py: the walker after the call, the
\* cursor after the call and what the call returned ("none": [], "rest": (id,),
\* "finite": (length, id)) or raised ("raise")
parse_header(f, p, py) ==
    IF at_scope_end(f, p) THEN Result("none", f, p, 0, <<>>, "", <<>>)
    ELSE IF past_scope_end(f, p)
    THEN Result("raise", f, p, 0, <<>>, "InvalidBoxLength", UnknownBox)
    ELSE
    LET lenb == Read(p, 4)
        p1 == p + Len(lenb)
    IN
    IF Len(lenb) = 0 THEN Result("none", f, p1, 0, <<>>, "", <<>>)
    ELSE IF Len(lenb) < 4 THEN Result("raise", f, p1, 0, <<>>, "UnexpectedEOF", <<>>)
    ELSE
    LET len4 == ordl(lenb)
        id == Read(p1, 4)
        p2 == p1 + Len(id)
        f8 == [f EXCEPT !.offset = @ + 8, !.hdrsize = 8]
    IN
    IF ~IsAscii(id) THEN Result("raise", f, p2, 0, id, "UnicodeDecodeError", <<>>)
    ELSE IF Len(id) < 4 THEN Result("raise", f, p2, 0, id, "UnexpectedEOF", <<>>)
    ELSE IF len4 = 1 THEN
        LET xlength == Read(p2, 8)
            p3 == p2 + Len(xlength)
            f16 == [f8 EXCEPT !.offset = @ + 8, !.hdrsize = 16]
        IN
        IF Len(xlength) < 8 THEN Result("raise", f16, p3, 0, id, "UnexpectedEOF", <<>>)
        ELSE IF ordq(xlength) < 16
        THEN Result("raise", f16, p3, 0, id, raise_named(py, id).err, raise_named(py, id).box)
        ELSE Result("finite", [f16 EXCEPT !.boxsize = ordq(xlength) - 16], p3,
                    ordq(xlength) - 16, id, "", <<>>)
    ELSE IF length_below_header(len4)
    THEN Result("raise", f8, p2, 0, id, raise_named(py, id).err, raise_named(py, id).box)
    ELSE IF len4 > 0
    THEN Result("finite", [f8 EXCEPT !.boxsize = len4 - 8], p2, len4 - 8, id, "", <<>>)
    ELSE Result("rest", f8, p2, 0, id, "", <<>>)

\* JP2Box.readbody: the bytes it returns
readbody(f, p) ==
    IF f.bodysize > 0 THEN Read(p, f.bodysize) ELSE ReadAll(p)

\* JP2Box.new_box / JP2Box.end_box: the indent level after the call
new_box(f) == [f EXCEPT !.indent = @ + 1]

\* an end_box that leaves the indent level as new_box set it
end_box_kept(f) == f

end_box(f) == [f EXCEPT !.indent = @ - 1]

\* ------------------------------------------------------------ the sources
W(n) == <<0, 0, 0, n>>
TagJp2h == <<106, 112, 50, 104>>
TagRaw == <<0, 1, 2, 3>>
TagHigh == <<106, 112, 200, 104>>

H8(L, tag) == W(L) \o tag
H16(tag, XL) == W(1) \o tag \o W(0) \o W(XL)

\* headers (their bodies are the chunks that follow) and one complete small box
Chunks ==
    { H8(0, TagJp2h), H8(8, TagJp2h), H8(12, TagJp2h) \o W(0), H8(24, TagRaw),
      H8(3, TagJp2h), H8(7, TagHigh),
      H16(TagRaw, 15), H16(TagJp2h, 16), H16(TagJp2h, 24), H16(TagHigh, 16) }

\* truncated headers, at the end of a source
Tails ==
    { <<0, 0>>, W(8), W(8) \o <<106, 112>>, W(8) \o <<200>>,
      W(1) \o TagJp2h \o W(0) }

RECURSIVE ChunkSeqs(_)
ChunkSeqs(n) ==
    IF n = 0 THEN {<<>>}
    ELSE LET S == ChunkSeqs(n - 1) IN S \cup {s \o c : s \in S, c \in Chunks}

Sources ==
    ChunkSeqs(MaxChunks) \cup {s \o t : s \in ChunkSeqs(MaxChunks - 1), t \in Tails}

NoRead == [from |-> -1, n |-> 0]

\* an offset that is left at the body start when the box is done
offset_kept(f) == f

\* parse, line 155: self.offset += length, after the hook of a finite box
skip_body(f) == [f EXCEPT !.offset = @ + f.length]

\* --------------------------------------------------------------- actions
Top == stack[Len(stack)]
SetTop(f) == [stack EXCEPT ![Len(stack)] = f]

Entry(f, p, r) ==
    [end |-> f.end, at |-> p, nread |-> r.pos - p, res |-> r.res,
     hdr |-> r.f.hdrsize, length |-> r.length, err |-> r.err, box |-> r.box]

\* the walker after a parse_header call, with the call entered in its log
Logged(f, p, r) == [r.f EXCEPT !.log = Append(@, Entry(f, p, r))]

Init ==
    /\ src \in Sources
    /\ pos = 0
    /\ stack = <<RootBox(0)>>
    /\ outcome = "running"
    /\ errbox = <<>>
    /\ lastRead = NoRead
    /\ left = -1
    /\ ret = <<>>

\* parse, lines 134-136: parse_header returns [] and parse returns; a child
\* walker's parse returns into the handler that called it
WalkNone ==
    /\ outcome = "running"
    /\ Top.pc = "header"
    /\ \E py \in PythonVersions : LET r == parse_header(Top, pos, py) IN
        /\ r.res = "none"
        /\ pos' = r.pos
        /\ IF Len(stack) = 1
           THEN /\ outcome' = "returned"
                /\ stack' = SetTop([Logged(Top, pos, r) EXCEPT !.pc = "done"])
                /\ ret' = <<>>
           ELSE /\ outcome' = outcome
                /\ stack' = SubSeq(stack, 1, Len(stack) - 1)
                /\ ret' = <<Logged(Top, pos, r)>>
    /\ lastRead' = NoRead
    /\ left' = -1
    /\ UNCHANGED <<src, errbox>>

\* parse, line 134: parse_header raises; no handler of the walk catches it
WalkRaise ==
    /\ outcome = "running"
    /\ Top.pc = "header"
    /\ \E py \in PythonVersions : LET r == parse_header(Top, pos, py) IN
        /\ r.res = "raise"
        /\ pos' = r.pos
        /\ outcome' = r.err
        /\ errbox' = r.box
        /\ stack' = SetTop(Logged(Top, pos, r))
    /\ lastRead' = NoRead
    /\ left' = -1
    /\ ret' = <<>>
    /\ UNCHANGED src

\* parse, lines 137-140: a box with L == 0; new_box, then the hook is called
WalkRest ==
    /\ outcome = "running"
    /\ Top.pc = "header"
    /\ \E py \in PythonVersions : LET r == parse_header(Top, pos, py) IN
        /\ r.res = "rest"
        /\ pos' = r.pos
        /\ stack' = SetTop([new_box(Logged(Top, pos, r)) EXCEPT !.pc = "hook", !.kind = "rest",
                               !.id = r.id, !.bstart = r.pos, !.ops = 0])
    /\ lastRead' = NoRead
    /\ left' = -1
    /\ ret' = <<>>
    /\ UNCHANGED <<src, outcome, errbox>>

\* parse, lines 144-151: a finite box; bodysize and target are set, new_box,
\* then the hook is called
WalkFinite ==
    /\ outcome = "running"
    /\ Top.pc = "header"
    /\ \E py \in PythonVersions : LET r == parse_header(Top, pos, py) IN
        /\ r.res = "finite"
        /\ pos' = r.pos
        /\ stack' = SetTop([new_box([Logged(Top, pos, r) EXCEPT !.bodysize = r.length,
                                                  !.target = r.pos + r.length])
                               EXCEPT !.pc = "hook", !.kind = "finite", !.length = r.length,
                                      !.id = r.id, !.bstart = r.pos, !.ops = 0])
    /\ lastRead' = NoRead
    /\ left' = -1
    /\ ret' = <<>>
    /\ UNCHANGED <<src, outcome, errbox>>

\* the hook reads k bytes from the source itself
HookRead(k) ==
    /\ outcome = "running"
    /\ Top.pc = "hook"
    /\ Top.ops < MaxHookOps
    /\ pos' = pos + Len(Read(pos, k))
    /\ stack' = SetTop([Top EXCEPT !.ops = @ + 1])
    /\ lastRead' = NoRead
    /\ left' = -1
    /\ ret' = <<>>
    /\ UNCHANGED <<src, outcome, errbox>>

\* the hook calls box.readbody()
HookReadBody ==
    /\ outcome = "running"
    /\ Top.pc = "hook"
    /\ Top.ops < MaxHookOps
    /\ LET buf == readbody(Top, pos) IN
        /\ pos' = pos + Len(buf)
        /\ lastRead' = [from |-> pos, n |-> Len(buf)]
    /\ stack' = SetTop([Top EXCEPT !.ops = @ + 1])
    /\ left' = -1
    /\ ret' = <<>>
    /\ UNCHANGED <<src, outcome, errbox>>

\* the hook builds JP2Box(box, infile) and calls its parse with the same hook
HookRecurse ==
    /\ outcome = "running"
    /\ Top.pc = "hook"
    /\ Top.ops < MaxHookOps
    /\ Len(stack) < MaxDepth
    /\ stack' = Append(SetTop([Top EXCEPT !.ops = @ + 1]),
                       ChildBox(Top, 0, pos))
    /\ lastRead' = NoRead
    /\ left' = -1
    /\ ret' = <<>>
    /\ UNCHANGED <<src, pos, outcome, errbox>>

\* parse, lines 153-156: the hook of a finite box returns; seek to target,
\* offset += length, end_box, and the loop goes on
HookReturnFinite ==
    /\ outcome = "running"
    /\ Top.pc = "hook"
    /\ Top.kind = "finite"
    /\ pos' = seek(Top.target)
    /\ stack' = SetTop([end_box(skip_body(Top)) EXCEPT !.pc = "header"])
    /\ lastRead' = NoRead
    /\ left' = pos
    /\ ret' = <<>>
    /\ UNCHANGED <<src, outcome, errbox>>

\* parse, lines 141-142: the hook of a box with L == 0 returns; end_box, and
\* the loop goes on
HookReturnRest ==
    /\ outcome = "running"
    /\ Top.pc = "hook"
    /\ Top.kind = "rest"
    /\ stack' = SetTop([end_box(Top) EXCEPT !.pc = "header"])
    /\ lastRead' = NoRead
    /\ left' = pos
    /\ ret' = <<>>
    /\ UNCHANGED <<src, pos, outcome, errbox>>

\* the sizes of a handler's raw reads: one 4-byte field at a time
ReadSizes == {4}

Next ==
    \/ WalkNone
    \/ WalkRaise
    \/ WalkRest
    \/ WalkFinite
    \/ \E k \in ReadSizes : HookRead(k)
    \/ HookReadBody
    \/ HookRecurse
    \/ HookReturnFinite
    \/ HookReturnRest

Spec == Init /\ [][Next]_vars

\* ------------------------------------------- the decoders, called alone
\* self.boxname(id) under interpreter py: the text returned, or the exception
\* raised.  Python 3 finds no string.index; Python 2 indexes id[0..3].
boxname_call(py, id) ==
    IF py = 3 THEN [err |-> "AttributeError", box |-> <<>>]
    ELSE IF Len(id) < 4 THEN [err |-> "IndexError", box |-> <<>>]
    ELSE [err |-> "", box |-> boxname(id)]

StrResult(res, buf, length, id, err, box) ==
    [res |-> res, buf |-> buf, length |-> length, id |-> id, err |-> err, box |-> box]

\* raise InvalidBoxLength(self.boxname(id)) in parse_string_header
StrRaiseNamed(py, id) ==
    LET n == boxname_call(py, id) IN
    IF n.err # "" THEN StrResult("raise", <<>>, 0, id, n.err, <<>>)
    ELSE StrResult("raise", <<>>, 0, id, "InvalidBoxLength", n.box)

\* JP2Box.parse_string_header(buf) under interpreter py: what it returns
\* ("return": the tuple (buf, length, id)) or raises.  ordl is applied to the
\* whole buffer, and struct.unpack('>L', buf) takes a buffer of exactly 4 bytes.
parse_string_header(buf, py) ==
    IF Len(buf) # 4 THEN StrResult("raise", <<>>, 0, <<>>, "struct.error", <<>>)
    ELSE
    LET length == ordl(buf)
        id == SubSeq(buf, 5, Min(8, Len(buf)))
        buf1 == SubSeq(buf, 9, Len(buf))
    IN
    IF length = 1 THEN
        LET xlength == SubSeq(buf1, 1, Min(8, Len(buf1)))
            buf2 == SubSeq(buf1, 9, Len(buf1))
        IN
        IF Len(xlength) < 8 THEN StrResult("raise", <<>>, 0, id, "UnexpectedEOF", <<>>)
        ELSE IF ordq(xlength) < 16 THEN StrRaiseNamed(py, id)
        ELSE StrResult("return", buf2, ordq(xlength) - 16, id, "", <<>>)
    ELSE IF 0 < length /\ length < 8 THEN StrRaiseNamed(py, id)
    ELSE IF length > 0 THEN StrResult("return", buf1, length - 8, id, "", <<>>)
    ELSE StrResult("return", buf1, length, id, "", <<>>)

\* 4-byte type tags: letters, digits, their neighbours in ASCII, control
\* bytes and bytes above 0x7f
TagBytes == {0, 47, 50, 90, 104, 200}
Tags ==
    {<<a, b, c, d>> : a \in {0, 106}, b \in TagBytes, c \in TagBytes, d \in TagBytes}
        \cup {TagJp2h, TagRaw, TagHigh}

\* 4-byte length fields
LengthWords == {W(0), W(1), W(3), W(8), W(12)}

\* what the decoders are called with: headers with and without the bytes that
\* follow them, single length fields, type tags
DecodeInputs == Sources \cup LengthWords \cup Tags

Called(call, py, r) ==
    [call |-> call, py |-> py, res |-> r.res, buf |-> r.buf, length |-> r.length,
     id |-> r.id]

InitDecode ==
    /\ src \in DecodeInputs
    /\ pos = 0
    /\ stack = <<>>
    /\ outcome = "running"
    /\ errbox = <<>>
    /\ lastRead = NoRead
    /\ left = -1
    /\ ret = <<>>

\* a caller decodes the header held in the in-memory buffer src
StringHeader ==
    /\ outcome = "running"
    /\ \E py \in PythonVersions :
        LET r == parse_string_header(src, py) IN
        /\ outcome' = (IF r.res = "raise" THEN r.err ELSE "returned")
        /\ errbox' = r.box
        /\ ret' = <<Called("parse_string_header", py, r)>>
    /\ UNCHANGED <<src, pos, stack, lastRead, left>>

\* a caller renders the type tag src
BoxName ==
    /\ outcome = "running"
    /\ Len(src) = 4
    /\ \E py \in PythonVersions :
        LET n == boxname_call(py, src) IN
        /\ outcome' = (IF n.err # "" THEN n.err ELSE "returned")
        /\ errbox' = n.box
        /\ ret' = <<Called("boxname", py,
                           StrResult(IF n.err # "" THEN "raise" ELSE "return",
                                     <<>>, 0, src, n.err, n.box))>>
    /\ UNCHANGED <<src, pos, stack, lastRead, left>>

NextDecode ==
    \/ StringHeader
    \/ BoxName

SpecDecode == InitDecode /\ [][NextDecode]_vars

\* ------------------------------------------------ the claims' vocabulary
\* every walker whose log is in the state: the live ones and the one that has
\* just returned
Walkers == {stack[i] : i \in 1..Len(stack)} \cup {ret[i] : i \in 1..Len(ret)}

Entries(f) == {f.log[i] : i \in 1..Len(f.log)}

\* number of bytes of the source at and after position p
Avail(p) == IF p >= Len(src) THEN 0 ELSE Len(src) - p

\* the fields of the header that starts at position p, read off the bytes
FieldL(p) == ordl(SubSeq(src, p + 1, p + 4))
FieldTag(p) == SubSeq(src, p + 5, p + 8)
FieldXL(p) == ordq(SubSeq(src, p + 9, p + 16))

\* header size and body size a finite box at p declares
DeclHeaderSize(p) == IF FieldL(p) = 1 THEN 16 ELSE 8
DeclBodySize(p) == IF FieldL(p) = 1 THEN FieldXL(p) - 16 ELSE FieldL(p) - 8

\* C1: when the handler of a finite box has returned and the next header is
\* about to be decoded, the cursor is at body start + declared body size,
\* wherever the handler left it
C1_CursorAtBodyEnd ==
    (outcome = "running" /\ Top.pc = "header" /\ Top.kind = "finite") =>
        LET at == Top.log[Len(Top.log)].at
        IN pos = at + DeclHeaderSize(at) + DeclBodySize(at)

\* C1 witness: the handler of a box with a 16-byte header read past the end of
\* the body and the walker has repositioned the cursor
C1_Witness ==
    /\ outcome = "running" /\ Top.pc = "header" /\ Top.kind = "finite"
    /\ Top.hdrsize = 16
    /\ left > pos

\* a valid box stream in [p, end): boxes with decodable tags that follow one
\* another and end at `end`, a box with L == 0 being the last
RECURSIVE ValidStream(_, _)
ValidStream(p, end) ==
    IF p = end THEN TRUE
    ELSE IF end - p < 8 THEN FALSE
    ELSE IF ~IsAscii(FieldTag(p)) THEN FALSE
    ELSE IF FieldL(p) = 0 THEN TRUE
    ELSE IF FieldL(p) = 1
    THEN /\ end - p >= 16
         /\ FieldXL(p) >= 16
         /\ p + FieldXL(p) <= end
         /\ ValidStream(p + FieldXL(p), end)
    ELSE /\ FieldL(p) >= 8
         /\ p + FieldL(p) <= end
         /\ ValidStream(p + FieldL(p), end)

\* the boxes of a valid stream in [p, end), as <<start, header + body size>>
RECURSIVE Tiling(_, _)
Tiling(p, end) ==
    IF p = end THEN <<>>
    ELSE IF FieldL(p) = 0 THEN << <<p, end - p>> >>
    ELSE IF FieldL(p) = 1 THEN << <<p, FieldXL(p)>> >> \o Tiling(p + FieldXL(p), end)
    ELSE << <<p, FieldL(p)>> >> \o Tiling(p + FieldL(p), end)

\* the boxes a walker has handed to the hook, as <<start, header + body size>>,
\* a box with L == 0 counting as all that remains of the scope
RECURSIVE Dispatched(_, _)
Dispatched(lg, end) ==
    IF lg = <<>> THEN <<>>
    ELSE LET e == lg[1] IN
         (IF e.res = "finite" THEN << <<e.at, e.hdr + e.length>> >>
          ELSE IF e.res = "rest" THEN << <<e.at, end - e.at>> >>
          ELSE <<>>) \o Dispatched(Tail(lg), end)

IsPrefix(a, b) == Len(a) <= Len(b) /\ SubSeq(b, 1, Len(a)) = a

\* C2: for a valid box stream in the root scope, the boxes handed to the hook
\* tile the scope: they are the boxes of the stream, each once and in order,
\* the root walker raises nothing, and all of them have been dispatched when
\* the walk returns
C2_Tiling ==
    ValidStream(0, Len(src)) =>
        /\ Len(stack) = 1 => outcome \in {"running", "returned"}
        /\ IsPrefix(Dispatched(stack[1].log, Len(src)), Tiling(0, Len(src)))
        /\ outcome = "returned" =>
               Dispatched(stack[1].log, Len(src)) = Tiling(0, Len(src))

\* C3: after a walker has dispatched a box with L == 0, it reads no further
\* header bytes and invokes the hook for no further box of that scope
C3_RestIsLast ==
    \A f \in Walkers : \A i, j \in 1..Len(f.log) :
        (i < j /\ f.log[i].res = "rest") =>
            (f.log[j].nread = 0 /\ f.log[j].res \notin {"finite", "rest"})

\* C4: a complete 8-byte header with L in 2..7 fails with InvalidBoxLength,
\* whatever its type tag, and its box is not dispatched
C4_SmallLength ==
    \A f \in Walkers : \A e \in Entries(f) :
        (e.nread > 0 /\ Avail(e.at) >= 8 /\ FieldL(e.at) \in 2..7) =>
            (e.res = "raise" /\ e.err = "InvalidBoxLength")

\* C5: a header with L == 1 and a complete XL fails with InvalidBoxLength if
\* XL < 16 and otherwise is a finite box with header size 16 and body size
\* XL - 16
C5_ExtendedLength ==
    \A f \in Walkers : \A e \in Entries(f) :
        (e.nread > 0 /\ Avail(e.at) >= 16 /\ FieldL(e.at) = 1) =>
            IF FieldXL(e.at) < 16
            THEN e.res = "raise" /\ e.err = "InvalidBoxLength"
            ELSE e.res = "finite" /\ e.hdr = 16 /\ e.length = FieldXL(e.at) - 16

\* C6: a header of which the source holds only 1 to 7 bytes, or with L == 1
\* and fewer than 8 bytes of XL, fails with UnexpectedEOF
C6_TruncatedHeader ==
    \A f \in Walkers : \A e \in Entries(f) :
        (e.nread > 0 /\ (Avail(e.at) < 8 \/ (FieldL(e.at) = 1 /\ Avail(e.at) < 16))) =>
            (e.res = "raise" /\ e.err = "UnexpectedEOF")

\* C7: the root walk never returns normally after a finite box whose body end
\* lies beyond the end of the source
C7_NoOverrun ==
    (\E e \in Entries(stack[1]) :
        e.res = "finite" /\ e.at + e.hdr + e.length > Len(src)) =>
            outcome # "returned"

\* C8: readbody, called first thing by the handler of a finite box of declared
\* body size N, returns exactly N bytes (the model's readbody never raises)
C8_ReadBodyExact ==
    (lastRead.from >= 0 /\ Top.kind = "finite" /\ lastRead.from = Top.bstart) =>
        lastRead.n = Top.length

\* the end of the scope of the walker stack[i]: the end of the source for the
\* root walker, the body end of the box being handled by the parent otherwise
RECURSIVE ScopeEnd(_)
ScopeEnd(i) ==
    IF i = 1 THEN Len(src)
    ELSE IF stack[i - 1].kind = "finite"
         THEN Min(stack[i - 1].bstart + stack[i - 1].length, Len(src))
         ELSE ScopeEnd(i - 1)

\* C9: readbody, called first thing by the handler of a box with L == 0 whose
\* header lies within the current scope, returns all bytes from the body start
\* to the end of the scope
C9_ReadBodyRest ==
    (/\ lastRead.from >= 0 /\ Top.kind = "rest" /\ lastRead.from = Top.bstart
     /\ Top.bstart <= ScopeEnd(Len(stack))) =>
        lastRead.n = ScopeEnd(Len(stack)) - Top.bstart

\* C10: in a bounded scope (end > 0) parse_header returns "no more boxes"
\* without reading when the cursor is at the scope end, raises
\* InvalidBoxLength("unknown box") without reading when the cursor is past
\* it, and reads header bytes only when the cursor is before it
C10_ScopeBoundary ==
    \A f \in Walkers : \A e \in Entries(f) :
        e.end > 0 =>
            /\ e.at = e.end => (e.res = "none" /\ e.nread = 0)
            /\ e.at > e.end =>
                   /\ e.res = "raise" /\ e.err = "InvalidBoxLength"
                   /\ e.box = UnknownBox /\ e.nread = 0
            /\ e.nread > 0 => e.at < e.end

\* C10 witness: a child walker found the cursor past its scope end and the
\* walk ended with InvalidBoxLength("unknown box")
C10_Witness ==
    /\ outcome = "InvalidBoxLength" /\ errbox = UnknownBox
    /\ Len(stack) >= 2
    /\ \E e \in Entries(Top) : e.end > 0 /\ e.at > e.end /\ e.nread = 0

\* C11: whenever a walk returns normally the cursor is at the end of its scope
\* or at the end of the source: the root walk returns with the cursor at the
\* end of the source, a child walk with the cursor at its scope end or at the
\* end of the source
C11_ReturnAtBoundary ==
    /\ outcome = "returned" => pos = Len(src)
    /\ \A i \in 1..Len(ret) : (pos = ret[i].end \/ pos = Len(src))

\* a well-formed sequence of finite boxes in [p, end): complete headers with
\* L >= 8, or L == 1 and XL >= 16, each box ending where the next starts, the
\* last at `end`
RECURSIVE FiniteStream(_, _)
FiniteStream(p, end) ==
    IF p = end THEN TRUE
    ELSE IF end - p < 8 THEN FALSE
    ELSE IF FieldL(p) = 0 THEN FALSE
    ELSE IF FieldL(p) = 1
    THEN /\ end - p >= 16
         /\ FieldXL(p) >= 16
         /\ p + FieldXL(p) <= end
         /\ FiniteStream(p + FieldXL(p), end)
    ELSE /\ FieldL(p) >= 8
         /\ p + FieldL(p) <= end
         /\ FiniteStream(p + FieldL(p), end)

\* child is a walker that the handler of the finite box of walker parent built
\* at the body start, and the body is a well-formed sequence of finite boxes
\* that the source holds
NestedCase(parent, child) ==
    /\ parent.pc = "hook" /\ parent.kind = "finite"
    /\ child.start = parent.bstart
    /\ parent.bstart + parent.length <= Len(src)
    /\ FiniteStream(parent.bstart, parent.bstart + parent.length)

\* what C13 says of such a child walker and its parent; `own` says that the
\* child's own parse_header has returned or raised last, `done` that the child
\* walk has returned
NestedAccounting(parent, child, own, done) ==
    LET bend == parent.bstart + parent.length IN
    /\ child.end = bend
    /\ IsPrefix(Dispatched(child.log, bend), Tiling(parent.bstart, bend))
    /\ own => outcome \in {"running", "returned"}
    /\ done => (Dispatched(child.log, bend) = Tiling(parent.bstart, bend) /\ pos = bend)
    /\ parent.target = bend /\ parent.bodysize = parent.length
    /\ parent.offset = parent.bstart

\* C13: a child walker built at the body start of a finite container whose
\* body is a well-formed sequence of finite boxes dispatches boxes that tile
\* the body, raises nothing itself, returns with the cursor at the parent's
\* body end, and leaves the parent's body end, body size and offset as they
\* were, at every nesting level
C13_NestedAccounting ==
    /\ \A i \in 2..Len(stack) :
           NestedCase(stack[i - 1], stack[i]) =>
               NestedAccounting(stack[i - 1], stack[i], i = Len(stack), FALSE)
    /\ \A i \in 1..Len(ret) :
           NestedCase(Top, ret[i]) => NestedAccounting(Top, ret[i], TRUE, TRUE)

\* the digits of "%02x", and the rendering of a tag that C14 states
LowerHex == <<48, 49, 50, 51, 52, 53, 54, 55, 56, 57, 97, 98, 99, 100, 101, 102>>
IsLetterOrDigit(c) == c \in 48..57 \/ c \in 65..90 \/ c \in 97..122
HexOfTag(tag) ==
    <<LowerHex[(tag[1] \div 16) + 1], LowerHex[(tag[1] % 16) + 1],
      LowerHex[(tag[2] \div 16) + 1], LowerHex[(tag[2] % 16) + 1],
      LowerHex[(tag[3] \div 16) + 1], LowerHex[(tag[3] % 16) + 1],
      LowerHex[(tag[4] \div 16) + 1], LowerHex[(tag[4] % 16) + 1]>>
Rendering(tag) ==
    IF \A i \in 1..4 : IsLetterOrDigit(tag[i]) THEN tag ELSE <<48, 120>> \o HexOfTag(tag)

\* C14: boxname is a total function of the 4 bytes of a tag: it returns, for
\* every tag, the 4 characters if all are letters or digits and otherwise "0x"
\* and the 8 lowercase hex digits of the bytes
C14_BoxNameRendering ==
    (ret # <<>> /\ ret[1].call = "boxname") =>
        (outcome = "returned" /\ errbox = Rendering(src))

\* the scope end a child walker has that inherits t as its `end`: 0 stands for
\* an unbounded scope, which ends where the source ends
BoundOf(t) == IF t = 0 THEN Len(src) ELSE t

\* C15: while the handler of a box with L == 0 runs, the walker's target (the
\* scope end of a child walker built by the handler) is the end of the
\* enclosing scope, whether or not finite siblings preceded the box; a target
\* of 0 is taken for the end of the source
C15_RestTarget ==
    \A i \in 1..Len(stack) :
        (/\ stack[i].pc = "hook" /\ stack[i].kind = "rest"
         /\ stack[i].bstart <= ScopeEnd(i)) =>
            BoundOf(stack[i].target) = ScopeEnd(i)

\* the L field of a buffer of at least 4 bytes
BufL(b) == ordl(SubSeq(b, 1, 4))

\* the buffer holds a complete header: 8 bytes, 16 if L == 1
CompleteHeader(b) == Len(b) >= 8 /\ (BufL(b) = 1 => Len(b) >= 16)

\* C16: parse_string_header, like parse_header, decodes a complete header with
\* L == 0 to a result, and that result differs from the body size it returns
\* for any header with L # 0; for a complete header with L # 0 both decoders
\* return the same body size or both raise InvalidBoxLength
C16_DecodersAgree ==
    (ret # <<>> /\ ret[1].call = "parse_string_header" /\ Len(src) >= 4) =>
        LET r == ret[1]
            h == parse_header(RootBox(0), 0, r.py)
        IN
        /\ (BufL(src) = 0 /\ r.res = "return") =>
               \A b \in DecodeInputs :
                   (/\ Len(b) >= 4 /\ BufL(b) # 0
                    /\ parse_string_header(b, r.py).res = "return") =>
                       parse_string_header(b, r.py).length # r.length
        /\ (CompleteHeader(src) /\ IsAscii(FieldTag(0))) =>
               IF BufL(src) = 0
               THEN h.res = "rest" /\ r.res = "return"
               ELSE /\ (h.res = "finite") = (r.res = "return")
                    /\ h.res = "finite" => h.length = r.length
                    /\ (h.err = "InvalidBoxLength") = (outcome = "InvalidBoxLength")

\* the indent level the walker stack[i] had at entry to parse: 0 for the root
\* walker, the level of its parent (whose handler is running) for a child
EntryIndent(i) == IF i = 1 THEN 0 ELSE stack[i - 1].indent

\* the indent levels a walker may be given
IndentLevels == 0..MaxDepth

\* C17: during a handler call the walker's indent level is one more than at
\* entry to parse, at every header decode and at return it is the level at
\* entry, and what parse_header returns, reads or raises is the same for every
\* indent level
C17_Indent ==
    /\ \A i \in 1..Len(stack) :
           /\ stack[i].pc = "hook" => stack[i].indent = EntryIndent(i) + 1
           /\ stack[i].pc # "hook" => stack[i].indent = EntryIndent(i)
    /\ \A i \in 1..Len(ret) : ret[i].indent = Top.indent
    /\ (outcome = "running" /\ Top.pc = "header") =>
           \A py \in PythonVersions :
               LET a == parse_header(Top, pos, py) IN
               \A d \in IndentLevels :
                   parse_header([Top EXCEPT !.indent = d], pos, py)
                       = [a EXCEPT !.f.indent = d]

\* C17 witness: the handler of a box of a child walker has returned and the
\* child walker, back at its entry indent level 1, is about to decode the next
\* header
C17_Witness ==
    /\ outcome = "running" /\ Len(stack) = 2
    /\ Top.pc = "header" /\ Top.kind # "none"
    /\ Top.indent = 1 /\ stack[1].indent = 1

\* the header decodes of a log are at least 8 bytes apart and no more than the
\* source has 8-byte headers, plus the last one
Progressing(lg) ==
    /\ \A i \in 1..(Len(lg) - 1) : lg[i + 1].at >= lg[i].at + 8
    /\ Len(lg) <= (Len(src) \div 8) + 1

\* C18: parse finishes.  Every header decode of a walker starts at least 8
\* bytes after the previous one, also after a box with L == 0; a walker makes
\* no more header decodes than the source has 8-byte headers, plus the last
\* one; and the walk is never stuck: as long as the root walk has not returned
\* or raised, either a walker is at a header decode, which returns or raises,
\* or a (terminating, forward-reading) handler runs, which can return
C18_Terminates ==
    /\ \A w \in 1..Len(stack) : Progressing(stack[w].log)
    /\ \A w \in 1..Len(ret) : Progressing(ret[w].log)
    /\ outcome = "running" =>
           \/ /\ Top.pc = "header"
              /\ \E py \in PythonVersions :
                     parse_header(Top, pos, py).res \in {"none", "raise", "rest", "finite"}
           \/ Top.pc = "hook" /\ Top.kind \in {"finite", "rest"}

\* C18 witness: the root walk has finished after it decoded a header that
\* follows a box with L == 0
C18_Witness ==
    /\ outcome # "running" /\ Len(stack) = 1
    /\ \E i \in 1..(Len(stack[1].log) - 1) :
           /\ stack[1].log[i].res = "rest"
           /\ stack[1].log[i + 1].nread > 0
           /\ stack[1].log[i + 1].at >= stack[1].log[i].at + 8

\* the walker stack[i] was constructed with offset equal to the cursor: the
\* root walker (offset 0) at cursor 0, a child walker (offset of its parent,
\* whose handler is running) at the cursor that equals that offset
OffsetAtCursor(i) ==
    IF i = 1 THEN stack[1].start = 0 ELSE stack[i].start = stack[i - 1].offset

\* C19: for a walker constructed with offset equal to the cursor, while the
\* handler of a box runs that only finite boxes precede in the scope (a finite
\* box or a box with L == 0), offset is the cursor position of the body start
\* and offset - hdrsize the position of the first header byte
C19_Offset ==
    \A i \in 1..Len(stack) :
        LET f == stack[i] IN
        (/\ f.pc = "hook" /\ OffsetAtCursor(i)
         /\ \A k \in 1..(Len(f.log) - 1) : f.log[k].res = "finite") =>
            /\ f.offset = f.bstart
            /\ f.offset - f.hdrsize = f.log[Len(f.log)].at

\* C19 witness: the handler of a box with L == 0 runs that follows a finite
\* box with a 16-byte header and a finite box with an 8-byte header
C19_Witness ==
    /\ outcome = "running" /\ Top.pc = "hook" /\ Top.kind = "rest"
    /\ OffsetAtCursor(Len(stack))
    /\ Len(Top.log) = 3
    /\ Top.log[1].res = "finite" /\ Top.log[1].hdr = 16
    /\ Top.log[2].res = "finite" /\ Top.log[2].hdr = 8
    /\ Top.offset = pos

====
